---- MODULE Spec2Model ----
(***************************************************************************)
(* Model of mio's low-level socket primitives:                             *)
(*   src/sys/unix/uds/mod.rs   socket_addr, path_offset, pair_descriptors  *)
(*   src/sys/windows/tcp.rs    bind, connect, listen, close, set_linger,   *)
(*                             set_keepalive, get_keepalive, get_localaddr *)
(* Four specifications share the variables; each drives one group of       *)
(* operations and leaves the other groups' variables at their idle value.  *)
(***************************************************************************)
EXTENDS Integers, Sequences, FiniteSets, TLC

VARIABLES
    \* ---- unix/uds socket_addr ----
    bytes,        \* path.as_os_str().as_bytes(): the argument of socket_addr
    sunPathLen,   \* sockaddr.sun_path.len() of the target platform
    sunPathOff,   \* byte offset of sun_path inside sockaddr_un on the target
    addrRes,      \* what socket_addr returned ("none" before the call)
    \* ---- unix/uds pair_descriptors ----
    fallback,     \* TRUE on ios/macos/solaris (the cfg(any(...)) build)
    flagsArg,     \* the flags argument (socket type)
    callerFds,    \* the caller's [RawFd; 2] array
    fds,          \* pair_descriptors' own copy of the array (by-value parameter)
    fdTable,      \* the OS descriptor table: fd -> [open, nonblock, cloexec]
    pairPc,       \* position inside pair_descriptors
    issued,       \* the syscalls pair_descriptors has issued, in order
    pairRes,      \* what pair_descriptors returned
    \* ---- windows/tcp lifecycle ----
    sock,         \* handle -> OS socket state
    owners,       \* handle -> number of owning TcpStream/TcpListener objects
    closeCalls,   \* handle -> number of closesocket calls applied by close()
    lastCall,     \* the last lifecycle call and its outcome
    \* ---- windows/tcp options ----
    osKeepalive,  \* the keep-alive block the OS holds for the handle
    osLinger,     \* the linger block the OS holds for the handle
    kaArg,        \* argument of the set_keepalive call whose block the OS holds
    lastOpt       \* the last option call and its outcome

addrVars == <<bytes, sunPathLen, sunPathOff, addrRes>>
pairVars == <<fallback, flagsArg, callerFds, fds, fdTable, pairPc, issued, pairRes>>
tcpVars  == <<sock, owners, closeCalls, lastCall>>
optVars  == <<osKeepalive, osLinger, kaArg, lastOpt>>
vars == <<addrVars, pairVars, tcpVars, optVars>>

(***************************************************************************)
(* Bounds                                                                  *)
(***************************************************************************)
MaxPathCap == 3      \* largest sun_path capacity explored (108 on Linux)
MaxWraps == 2        \* owning objects created per handle before the model stops
MaxCloses == 2       \* close() calls per handle before the model stops

(***************************************************************************)
(* unix/uds/mod.rs : socket_addr                                           *)
(***************************************************************************)
AF_UNIX == 1

\* Values a path byte can take: NUL, '/', and a byte above 0x7f.
ByteVals == {0, 47, 200}

\* Offsets of sun_path: 2 on Linux (sa_family_t) and on the BSDs (sun_len,
\* sun_family); a layout with more leading fields is included as well.
PathOffsets == {2, 4}

\* `*src as libc::c_char` on a target whose c_char is i8.
AsCChar(b) == IF b >= 128 THEN b - 256 ELSE b

\* usize::cmp
Cmp(a, b) == IF a < b THEN "Less" ELSE IF a = b THEN "Equal" ELSE "Greater"

\* bytes.get(0): -1 stands for None.
Get0(bs) == IF Len(bs) > 0 THEN bs[1] ELSE -1

path_offset(off) == off

NoAddr == [tag |-> "none", kind |-> "", msg |-> "", sun_family |-> 0,
           sun_path |-> <<>>, socklen |-> 0]

AddrErr(k, m) == [tag |-> "Err", kind |-> k, msg |-> m, sun_family |-> 0,
                  sun_path |-> <<>>, socklen |-> 0]

AddrOk(path, len) == [tag |-> "Ok", kind |-> "", msg |-> "", sun_family |-> AF_UNIX,
                      sun_path |-> path, socklen |-> len]

\* The zeroed sun_path with the bytes copied over its front (the zip loop).
CopyPath(bs, cap) ==
    [i \in 1..cap |-> IF i <= Len(bs) THEN AsCChar(bs[i]) ELSE 0]

\* A slip in the length check: the Equal arm is missing, so a pathname that
\* fills sun_path completely is let through.
socket_addr_noequal(bs, cap, off) ==
    LET first == Get0(bs)
        ord == Cmp(Len(bs), cap)
    IN  IF ord = "Greater"
        THEN AddrErr("InvalidInput", "path must be shorter than libc::sockaddr_un.sun_path")
        ELSE AddrOk(CopyPath(bs, cap),
                    path_offset(off) + Len(bs) + (IF first \in {0, -1} THEN 0 ELSE 1))

socket_addr(bs, cap, off) ==
    LET first == Get0(bs)
        ord == Cmp(Len(bs), cap)
    IN  IF first = 0 /\ ord = "Greater"
        THEN AddrErr("InvalidInput", "path must be no longer than libc::sockaddr_un.sun_path")
        ELSE IF ord \in {"Greater", "Equal"}
        THEN AddrErr("InvalidInput", "path must be shorter than libc::sockaddr_un.sun_path")
        ELSE AddrOk(CopyPath(bs, cap),
                    path_offset(off) + Len(bs) + (IF first \in {0, -1} THEN 0 ELSE 1))

RECURSIVE SeqsUpTo(_, _)
SeqsUpTo(S, n) ==
    IF n = 0 THEN {<<>>}
    ELSE LET shorter == SeqsUpTo(S, n - 1)
         IN  shorter \cup {Append(s, x) : s \in {t \in shorter : Len(t) = n - 1}, x \in S}

AddrIdle ==
    /\ bytes = <<>>
    /\ sunPathLen = 0
    /\ sunPathOff = 0
    /\ addrRes = NoAddr

AddrInputs ==
    /\ sunPathLen \in 1..MaxPathCap
    /\ sunPathOff \in PathOffsets
    /\ bytes \in SeqsUpTo(ByteVals, MaxPathCap + 1)
    /\ addrRes = NoAddr

SocketAddrCall ==
    /\ addrRes.tag = "none"
    /\ addrRes' = socket_addr(bytes, sunPathLen, sunPathOff)
    /\ UNCHANGED <<bytes, sunPathLen, sunPathOff>>
    /\ UNCHANGED <<pairVars, tcpVars, optVars>>

(***************************************************************************)
(* unix/uds/mod.rs : pair_descriptors                                      *)
(***************************************************************************)
FdRange == 0..5

SockTypes == {"SOCK_STREAM", "SOCK_DGRAM", "SOCK_SEQPACKET"}

\* What the caller's array holds before the call, and how many descriptors
\* the process already has open (stdio, or stdio and one more).
CallerArrays == {<<-1, -1>>, <<0, 0>>}
OpenAtStart == {3, 4}

ClosedFd == [open |-> FALSE, nonblock |-> FALSE, cloexec |-> FALSE]
PlainFd  == [open |-> TRUE, nonblock |-> FALSE, cloexec |-> FALSE]

NoPairRes == [tag |-> "none", errno |-> ""]

\* syscall!: -1 becomes Err(last_os_error()), anything else Ok.
syscall(rc, errno) ==
    IF rc = -1 THEN [tag |-> "Err", errno |-> errno] ELSE [tag |-> "Ok", errno |-> ""]

\* Line 80: the flags handed to socketpair(2).
PairFlags(fb, flags) ==
    IF fb THEN {flags} ELSE {flags, "SOCK_NONBLOCK", "SOCK_CLOEXEC"}

\* socketpair(2) hands out the two lowest free descriptors.
LowestFree(tbl, avoid) ==
    CHOOSE f \in FdRange :
        /\ ~tbl[f].open /\ f \notin avoid
        /\ \A g \in FdRange : (~tbl[g].open /\ g \notin avoid) => f <= g

\* A slip in the fallback block: the two F_SETFL calls first, then the two
\* F_SETFD calls.
FcntlArgsByCommand(k) ==
    CASE k = 1 -> [idx |-> 1, cmd |-> "F_SETFL", arg |-> "O_NONBLOCK"]
      [] k = 2 -> [idx |-> 2, cmd |-> "F_SETFL", arg |-> "O_NONBLOCK"]
      [] k = 3 -> [idx |-> 1, cmd |-> "F_SETFD", arg |-> "FD_CLOEXEC"]
      [] k = 4 -> [idx |-> 2, cmd |-> "F_SETFD", arg |-> "FD_CLOEXEC"]

\* Lines 91-94: the k-th fcntl of the fallback block (idx counts from 1).
FcntlArgs(k) ==
    CASE k = 1 -> [idx |-> 1, cmd |-> "F_SETFL", arg |-> "O_NONBLOCK"]
      [] k = 2 -> [idx |-> 1, cmd |-> "F_SETFD", arg |-> "FD_CLOEXEC"]
      [] k = 3 -> [idx |-> 2, cmd |-> "F_SETFL", arg |-> "O_NONBLOCK"]
      [] k = 4 -> [idx |-> 2, cmd |-> "F_SETFD", arg |-> "FD_CLOEXEC"]

\* The effect of a successful fcntl on the descriptor table.
ApplyFcntl(tbl, fd, cmd) ==
    IF cmd = "F_SETFL"
    THEN [tbl EXCEPT ![fd].nonblock = TRUE]
    ELSE [tbl EXCEPT ![fd].cloexec = TRUE]

PairIdle ==
    /\ fallback = FALSE
    /\ flagsArg = ""
    /\ callerFds = <<-1, -1>>
    /\ fds = <<-1, -1>>
    /\ fdTable = [f \in FdRange |-> ClosedFd]
    /\ pairPc = 5
    /\ issued = <<>>
    /\ pairRes = NoPairRes

PairInputs ==
    /\ fallback \in BOOLEAN
    /\ flagsArg \in SockTypes
    /\ callerFds \in CallerArrays
    /\ fds = callerFds                     \* the parameter is a copy of the array
    /\ \E n \in OpenAtStart :
           fdTable = [f \in FdRange |-> IF f < n THEN PlainFd ELSE ClosedFd]
    /\ pairPc = 0
    /\ issued = <<>>
    /\ pairRes = NoPairRes

\* Line 82, socketpair succeeds.
SocketpairOk ==
    /\ pairPc = 0
    /\ LET fl == PairFlags(fallback, flagsArg)
           a == LowestFree(fdTable, {})
           b == LowestFree(fdTable, {a})
           new == [open |-> TRUE,
                   nonblock |-> "SOCK_NONBLOCK" \in fl,
                   cloexec |-> "SOCK_CLOEXEC" \in fl]
       IN  /\ fdTable' = [fdTable EXCEPT ![a] = new, ![b] = new]
           /\ fds' = <<a, b>>
           /\ issued' = Append(issued, [call |-> "socketpair", fd |-> a, cmd |-> "",
                                        arg |-> "", rc |-> 0, errno |-> ""])
    /\ IF fallback
       THEN pairPc' = 1 /\ pairRes' = pairRes
       ELSE pairPc' = 5 /\ pairRes' = syscall(0, "")
    /\ UNCHANGED <<fallback, flagsArg, callerFds>>
    /\ UNCHANGED <<addrVars, tcpVars, optVars>>

\* Line 82, socketpair fails: `?` returns the error.
SocketpairFail ==
    /\ pairPc = 0
    /\ \E e \in {"EMFILE", "ENFILE"} :
        /\ issued' = Append(issued, [call |-> "socketpair", fd |-> -1, cmd |-> "",
                                     arg |-> "", rc |-> -1, errno |-> e])
        /\ pairRes' = syscall(-1, e)
    /\ pairPc' = 5
    /\ UNCHANGED <<fallback, flagsArg, callerFds, fds, fdTable>>
    /\ UNCHANGED <<addrVars, tcpVars, optVars>>

\* Lines 91-94, the k-th fcntl succeeds; after the fourth, line 96 returns Ok.
FcntlOk(k) ==
    /\ pairPc = k
    /\ LET c == FcntlArgs(k)
           fd == fds[c.idx]
       IN  /\ fdTable' = ApplyFcntl(fdTable, fd, c.cmd)
           /\ issued' = Append(issued, [call |-> "fcntl", fd |-> fd, cmd |-> c.cmd,
                                        arg |-> c.arg, rc |-> 0, errno |-> ""])
    /\ pairPc' = k + 1
    /\ pairRes' = IF k = 4 THEN syscall(0, "") ELSE pairRes
    /\ UNCHANGED <<fallback, flagsArg, callerFds, fds>>
    /\ UNCHANGED <<addrVars, tcpVars, optVars>>

\* Lines 91-94, the k-th fcntl fails: `?` returns the error at once.
FcntlFail(k) ==
    /\ pairPc = k
    /\ LET c == FcntlArgs(k)
           fd == fds[c.idx]
       IN  \E e \in {"EBADF", "EINVAL"} :
            /\ issued' = Append(issued, [call |-> "fcntl", fd |-> fd, cmd |-> c.cmd,
                                         arg |-> c.arg, rc |-> -1, errno |-> e])
            /\ pairRes' = syscall(-1, e)
    /\ pairPc' = 5
    /\ UNCHANGED <<fallback, flagsArg, callerFds, fds, fdTable>>
    /\ UNCHANGED <<addrVars, tcpVars, optVars>>

Fcntl1Ok == FcntlOk(1)
Fcntl2Ok == FcntlOk(2)
Fcntl3Ok == FcntlOk(3)
Fcntl4Ok == FcntlOk(4)
Fcntl1Fail == FcntlFail(1)
Fcntl2Fail == FcntlFail(2)
Fcntl3Fail == FcntlFail(3)
Fcntl4Fail == FcntlFail(4)

(***************************************************************************)
(* Unsigned integers wider than the checker's machine integers are kept as *)
(* two limbs: [hi, lo] stands for hi * 2^16 + lo, with 0 <= lo < 2^16.     *)
(***************************************************************************)
Limb == 65536

Big(h, l) == [hi |-> h, lo |-> l]

\* x * m for a small multiplier m, then + a for a small addend a.
BigMulAdd(x, m, a) ==
    LET low == x.lo * m + a
    IN  Big(x.hi * m + (low \div Limb), low % Limb)

BigLeq(x, y) == x.hi < y.hi \/ (x.hi = y.hi /\ x.lo <= y.lo)

I32Max == Big(32767, 65535)     \* i32::max_value() = 2^31 - 1
U32Max == Big(65535, 65535)     \* u32::max_value() = 2^32 - 1

\* `x.try_into().ok().unwrap_or_else(i32::max_value)` / `.unwrap_or(i32::max_value())`:
\* the value itself when it fits an i32, i32::MAX otherwise.
TryIntoI32OrMax(x) == IF BigLeq(x, I32Max) THEN x ELSE I32Max

(***************************************************************************)
(* windows/tcp.rs : socket lifecycle                                       *)
(***************************************************************************)
MaxHandles == 1
Handles == 1..MaxHandles

NoSock == [st |-> "none", family |-> ""]

NoCall == [op |-> "none", h |-> 0, arg |-> Big(0, 0), rc |-> 0, errno |-> "",
           ret |-> "", retErr |-> "", ownersBefore |-> 0, closesBefore |-> 0, stBefore |-> ""]

Call(o, hd, a, r, e, res, resErr) ==
    [op |-> o, h |-> hd, arg |-> a, rc |-> r, errno |-> e, ret |-> res, retErr |-> resErr,
     ownersBefore |-> owners[hd], closesBefore |-> closeCalls[hd],
     stBefore |-> sock[hd].st]

SOCKET_ERROR == -1

\* io::Error::kind() of a Winsock error code.
ErrorKind(errno) == IF errno = "WSAEWOULDBLOCK" THEN "WouldBlock" ELSE "Other"

\* What the native calls can report for a socket in state st: a set of
\* [rc, errno, st'] outcomes.
Outcome(r, e, s) == [rc |-> r, errno |-> e, st |-> s]

NativeBind(st) ==
    IF st = "closed" THEN {Outcome(SOCKET_ERROR, "WSAENOTSOCK", st)}
    ELSE IF st = "open"
    THEN {Outcome(0, "", "bound"), Outcome(SOCKET_ERROR, "WSAEADDRINUSE", st)}
    ELSE {Outcome(SOCKET_ERROR, "WSAEINVAL", st)}

NativeConnect(st) ==
    CASE st = "closed" -> {Outcome(SOCKET_ERROR, "WSAENOTSOCK", st)}
      [] st \in {"open", "bound"} ->
            {Outcome(0, "", "connected"),
             Outcome(SOCKET_ERROR, "WSAEWOULDBLOCK", "connecting"),
             Outcome(SOCKET_ERROR, "WSAENETUNREACH", st)}
      [] st = "connecting" -> {Outcome(SOCKET_ERROR, "WSAEALREADY", st)}
      [] st = "connected" -> {Outcome(SOCKET_ERROR, "WSAEISCONN", st)}
      [] OTHER -> {Outcome(SOCKET_ERROR, "WSAEINVAL", st)}

NativeListen(st) ==
    CASE st = "closed" -> {Outcome(SOCKET_ERROR, "WSAENOTSOCK", st)}
      [] st = "bound" ->
            {Outcome(0, "", "listening"), Outcome(SOCKET_ERROR, "WSAENOBUFS", st)}
      [] st = "listening" -> {Outcome(0, "", st)}
      [] st \in {"connecting", "connected"} -> {Outcome(SOCKET_ERROR, "WSAEISCONN", st)}
      [] OTHER -> {Outcome(SOCKET_ERROR, "WSAEINVAL", st)}

NativeClose(st) ==
    IF st = "closed" THEN {Outcome(SOCKET_ERROR, "WSAENOTSOCK", st)}
    ELSE {Outcome(0, "", "closed")}

\* The windows syscall!(call, PartialEq::eq, SOCKET_ERROR).
wsyscall(rc, errno) ==
    IF rc = SOCKET_ERROR THEN [tag |-> "Err", errno |-> errno]
    ELSE [tag |-> "Ok", errno |-> ""]

\* A slip in connect's match: every error is returned, WouldBlock included.
ConnectWrapsStrict(res) == res.tag # "Err"

\* Lines 58-65: the match on the native result; TRUE when the handle is
\* wrapped into a TcpStream.
ConnectWraps(res) == ~(res.tag = "Err" /\ ErrorKind(res.errno) # "WouldBlock")

\* The backlog values tried by listen.
Backlogs == {Big(0, 128), Big(32767, 65535), Big(32768, 0), Big(65535, 65535)}

TcpStart ==
    /\ sock = [h \in Handles |-> NoSock]
    /\ owners = [h \in Handles |-> 0]
    /\ closeCalls = [h \in Handles |-> 0]
    /\ lastCall = NoCall

\* new_socket(family, SOCK_STREAM): a fresh handle, or the OS error.
NewSocket(fam) ==
    /\ \E h \in Handles :
        /\ sock[h].st = "none"
        /\ \A g \in Handles : g < h => sock[g].st # "none"
        /\ \/ /\ sock' = [sock EXCEPT ![h] = [st |-> "open", family |-> fam]]
              /\ lastCall' = Call("new_socket", h, Big(0, 0), 0, "", "Ok", "")
           \/ /\ sock' = sock
              /\ lastCall' = Call("new_socket", h, Big(0, 0), SOCKET_ERROR, "WSAEMFILE", "Err", "WSAEMFILE")
    /\ UNCHANGED <<owners, closeCalls>>
    /\ UNCHANGED <<addrVars, pairVars, optVars>>

new_v4_socket == NewSocket("PF_INET")
new_v6_socket == NewSocket("PF_INET6")

bind ==
    \E h \in Handles : \E o \in NativeBind(sock[h].st) :
        /\ sock[h].st # "none"
        /\ sock' = [sock EXCEPT ![h].st = o.st]
        /\ LET res == wsyscall(o.rc, o.errno)
           IN  lastCall' = Call("bind", h, Big(0, 0), o.rc, o.errno, res.tag, res.errno)
        /\ UNCHANGED <<owners, closeCalls>>
        /\ UNCHANGED <<addrVars, pairVars, optVars>>

connect ==
    \E h \in Handles : \E o \in NativeConnect(sock[h].st) :
        /\ sock[h].st # "none"
        /\ owners[h] < MaxWraps
        /\ sock' = [sock EXCEPT ![h].st = o.st]
        /\ LET res == wsyscall(o.rc, o.errno)
           IN  IF ConnectWraps(res)
               THEN /\ owners' = [owners EXCEPT ![h] = @ + 1]   \* from_raw_socket
                    /\ lastCall' = Call("connect", h, Big(0, 0), o.rc, o.errno, "Ok", "")
               ELSE /\ owners' = owners
                    /\ lastCall' = Call("connect", h, Big(0, 0), o.rc, o.errno, "Err", res.errno)
        /\ UNCHANGED closeCalls
        /\ UNCHANGED <<addrVars, pairVars, optVars>>

listen ==
    \E h \in Handles : \E b \in Backlogs : \E o \in NativeListen(sock[h].st) :
        /\ sock[h].st # "none"
        /\ owners[h] < MaxWraps
        /\ sock' = [sock EXCEPT ![h].st = o.st]
        /\ LET res == wsyscall(o.rc, o.errno)
           IN  IF res.tag = "Err"
               THEN /\ owners' = owners
                    /\ lastCall' = Call("listen", h, TryIntoI32OrMax(b), o.rc, o.errno, "Err", res.errno)
               ELSE /\ owners' = [owners EXCEPT ![h] = @ + 1]   \* from_raw_socket
                    /\ lastCall' = Call("listen", h, TryIntoI32OrMax(b), o.rc, o.errno, "Ok", "")
        /\ UNCHANGED closeCalls
        /\ UNCHANGED <<addrVars, pairVars, optVars>>

close ==
    \E h \in Handles : \E o \in NativeClose(sock[h].st) :
        /\ sock[h].st # "none"
        /\ closeCalls[h] < MaxCloses
        /\ sock' = [sock EXCEPT ![h].st = o.st]
        /\ closeCalls' = [closeCalls EXCEPT ![h] = @ + 1]
        /\ lastCall' = Call("close", h, Big(0, 0), o.rc, o.errno, "", "")   \* `let _ =`
        /\ UNCHANGED owners
        /\ UNCHANGED <<addrVars, pairVars, optVars>>

(***************************************************************************)
(* windows/tcp.rs : socket options                                         *)
(***************************************************************************)
\* std::time::Duration: whole seconds (u64) and nanoseconds below 10^9.
Dur(s, n) == [secs |-> s, nanos |-> n]

DurSecs == {Big(0, 0), Big(0, 5), Big(1, 5), Big(32, 50331), Big(65, 35127)}
DurNanos == {0, 500000, 647000000, 648000000, 999999999}
Durations == {Dur(s, n) : s \in DurSecs, n \in DurNanos}

None == [some |-> FALSE, dur |-> Dur(Big(0, 0), 0)]
Some(d) == [some |-> TRUE, dur |-> d]
OptDurations == {None} \cup {Some(d) : d \in Durations}

\* Duration::as_secs, Duration::as_millis, Duration::from_millis
as_secs(d) == d.secs
as_millis(d) == BigMulAdd(d.secs, 1000, d.nanos \div 1000000)
from_millis(ms) ==
    LET rest == (ms.hi % 1000) * Limb + ms.lo
    IN  Dur(Big(ms.hi \div 1000, rest \div 1000), (rest % 1000) * 1000000)

\* `x as c_ushort` of a u64: the low 16 bits.
AsCUshort(x) == x.lo

\* A slip in set_linger: the timeout taken from the milliseconds.
linger_block_millis(dur) ==
    [l_onoff |-> IF dur.some THEN 1 ELSE 0,
     l_linger |-> IF dur.some THEN AsCUshort(as_millis(dur.dur)) ELSE 0]

\* Lines 138-141: the linger block set_linger builds.
linger_block(dur) ==
    [l_onoff |-> IF dur.some THEN 1 ELSE 0,
     l_linger |-> IF dur.some THEN AsCUshort(as_secs(dur.dur)) ELSE 0]

\* A slip in set_keepalive: the timeout taken from the whole seconds.
keepalive_block_secs(dur) ==
    LET dur_ms == IF dur.some THEN TryIntoI32OrMax(as_secs(dur.dur)) ELSE Big(0, 0)
    IN  [onoff |-> IF dur.some THEN 1 ELSE 0,
         keepalivetime |-> dur_ms,
         keepaliveinterval |-> dur_ms]

\* Lines 157-166: the tcp_keepalive block set_keepalive builds; dur_ms is an
\* i32 (the type of i32::max_value), cast to c_ulong without change.
keepalive_block(dur) ==
    LET dur_ms == IF dur.some THEN TryIntoI32OrMax(as_millis(dur.dur)) ELSE Big(0, 0)
    IN  [onoff |-> IF dur.some THEN 1 ELSE 0,
         keepalivetime |-> dur_ms,
         keepaliveinterval |-> dur_ms]

\* Lines 203-204: what get_keepalive makes of the block the OS reports.
keepalive_value(ka) ==
    IF ka.onoff = 0 \/ ka.keepaliveinterval = Big(0, 0)
    THEN None
    ELSE Some(from_millis(ka.keepaliveinterval))

AF_UNSPEC == "AF_UNSPEC"
AF_INET == "AF_INET"
AF_INET6 == "AF_INET6"
\* The ss_family values getsockname can write into the storage.
Families == {AF_UNSPEC, AF_INET, AF_INET6, "AF_UNIX"}

\* Lines 123-130: how get_localaddr reads the storage getsockname filled.
localaddr_value(family) ==
    IF family = AF_INET THEN "V4" ELSE "V6"

NoKeepalive == [onoff |-> 0, keepalivetime |-> Big(0, 0), keepaliveinterval |-> Big(0, 0)]
NoLinger == [l_onoff |-> 0, l_linger |-> 0]

NoOpt == [op |-> "none", arg |-> None, ka |-> NoKeepalive, lg |-> NoLinger,
          family |-> AF_UNSPEC, rc |-> 0, ret |-> "", val |-> None, addr |-> ""]

OptIdle ==
    /\ osKeepalive = NoKeepalive
    /\ osLinger = NoLinger
    /\ kaArg = None
    /\ lastOpt = NoOpt

\* set_linger: setsockopt(SO_LINGER) stores the block, or fails.
set_linger ==
    \E dur \in OptDurations : \E r \in {0, SOCKET_ERROR} :
        LET val == linger_block(dur)
        IN  /\ osLinger' = IF r = 0 THEN val ELSE osLinger
            /\ lastOpt' = [NoOpt EXCEPT !.op = "set_linger", !.arg = dur, !.lg = val,
                                        !.rc = r,
                                        !.ret = IF r = SOCKET_ERROR THEN "Err" ELSE "Ok"]
            /\ UNCHANGED <<osKeepalive, kaArg>>
            /\ UNCHANGED <<addrVars, pairVars, tcpVars>>

\* set_keepalive: WSAIoctl(SIO_KEEPALIVE_VALS) stores the block, or fails
\* (the input size it is handed is `size_of::<tcp_keepalive> as DWORD`).
set_keepalive ==
    \E dur \in OptDurations : \E r \in {0, SOCKET_ERROR} :
        LET keepalive == keepalive_block(dur)
        IN  /\ osKeepalive' = IF r = 0 THEN keepalive ELSE osKeepalive
            /\ kaArg' = IF r = 0 THEN dur ELSE kaArg
            /\ lastOpt' = [NoOpt EXCEPT !.op = "set_keepalive", !.arg = dur,
                                        !.ka = keepalive, !.rc = r,
                                        !.ret = IF r = 0 THEN "Ok" ELSE "Err"]
            /\ UNCHANGED osLinger
            /\ UNCHANGED <<addrVars, pairVars, tcpVars>>

\* get_keepalive: WSAIoctl fills the block from what the OS holds, or fails.
get_keepalive ==
    \E r \in {0, SOCKET_ERROR} :
        LET keepalive == IF r = 0 THEN osKeepalive ELSE NoKeepalive
        IN  /\ lastOpt' = [NoOpt EXCEPT !.op = "get_keepalive", !.ka = keepalive,
                                        !.rc = r,
                                        !.ret = IF r = 0 THEN "Ok" ELSE "Err",
                                        !.val = IF r = 0 THEN keepalive_value(keepalive)
                                                ELSE None]
            /\ UNCHANGED <<osKeepalive, osLinger, kaArg>>
            /\ UNCHANGED <<addrVars, pairVars, tcpVars>>

\* get_localaddr: getsockname fills the storage, or fails.
get_localaddr ==
    \E r \in {0, SOCKET_ERROR} : \E fam \in Families :
        /\ r = SOCKET_ERROR => fam = AF_UNSPEC      \* the storage stays zeroed
        /\ lastOpt' = [NoOpt EXCEPT !.op = "get_localaddr", !.family = fam, !.rc = r,
                                    !.ret = IF r = SOCKET_ERROR THEN "Err" ELSE "Ok",
                                    !.addr = IF r = SOCKET_ERROR THEN ""
                                             ELSE localaddr_value(fam)]
        /\ UNCHANGED <<osKeepalive, osLinger, kaArg>>
        /\ UNCHANGED <<addrVars, pairVars, tcpVars>>

(***************************************************************************)
(* Specifications                                                          *)
(***************************************************************************)
InitAddr == AddrInputs /\ PairIdle /\ TcpStart /\ OptIdle
NextAddr == SocketAddrCall
SpecAddr == InitAddr /\ [][NextAddr]_vars

InitPair == AddrIdle /\ PairInputs /\ TcpStart /\ OptIdle
NextPair ==
    \/ SocketpairOk \/ SocketpairFail
    \/ Fcntl1Ok \/ Fcntl2Ok \/ Fcntl3Ok \/ Fcntl4Ok
    \/ Fcntl1Fail \/ Fcntl2Fail \/ Fcntl3Fail \/ Fcntl4Fail
SpecPair == InitPair /\ [][NextPair]_vars

InitTcp == AddrIdle /\ PairIdle /\ TcpStart /\ OptIdle
NextTcp == new_v4_socket \/ new_v6_socket \/ bind \/ connect \/ listen \/ close
SpecTcp == InitTcp /\ [][NextTcp]_vars

InitOpt == AddrIdle /\ PairIdle /\ TcpStart /\ OptIdle
NextOpt == set_linger \/ set_keepalive \/ get_keepalive \/ get_localaddr
SpecOpt == InitOpt /\ [][NextOpt]_vars

(***************************************************************************)
(* Properties of socket_addr (SpecAddr)                                    *)
(***************************************************************************)
IsAbstract(bs) == Get0(bs) = 0
Called == addrRes.tag # "none"

\* C1: socket_addr fails with InvalidInput exactly when the name is abstract
\* and longer than sun_path, or is a pathname (or empty) and at least as long
\* as sun_path; in every other case it succeeds, so an abstract name of
\* exactly sun_path's length is accepted.
C1_RejectsExactly ==
    Called =>
        LET tooLong == \/ (IsAbstract(bytes) /\ Len(bytes) > sunPathLen)
                       \/ (~IsAbstract(bytes) /\ Len(bytes) >= sunPathLen)
        IN  /\ tooLong => (addrRes.tag = "Err" /\ addrRes.kind = "InvalidInput")
            /\ ~tooLong => addrRes.tag = "Ok"

\* C2: an accepted pathname gets length path_offset + len + 1, an accepted
\* abstract or empty name path_offset + len, and the length never exceeds
\* path_offset + the capacity of sun_path.
C2_SocklenExact ==
    addrRes.tag = "Ok" =>
        /\ addrRes.socklen = sunPathOff + Len(bytes)
                             + (IF Len(bytes) > 0 /\ bytes[1] # 0 THEN 1 ELSE 0)
        /\ addrRes.socklen <= sunPathOff + sunPathLen

C2_Witness ==
    /\ addrRes.tag = "Ok"
    /\ Len(bytes) > 0 /\ bytes[1] # 0
    /\ Len(bytes) = sunPathLen - 1
    /\ addrRes.socklen = sunPathOff + sunPathLen

(***************************************************************************)
(* Properties of pair_descriptors (SpecPair)                               *)
(***************************************************************************)
Returned == pairPc = 5
FlaggedFd(fd) ==
    /\ fd \in FdRange
    /\ fdTable[fd].open /\ fdTable[fd].nonblock /\ fdTable[fd].cloexec

\* C3: when pair_descriptors returns Ok, the two descriptors the caller holds
\* are the created pair, and both are non-blocking and close-on-exec.
C3_CallerPairFlagged ==
    (Returned /\ pairRes.tag = "Ok") =>
        /\ callerFds = fds
        /\ \A i \in 1..2 : FlaggedFd(callerFds[i])

\* The order the fallback block is documented to have.
AdjustmentOrder ==
    << <<1, "F_SETFL", "O_NONBLOCK">>, <<1, "F_SETFD", "FD_CLOEXEC">>,
       <<2, "F_SETFL", "O_NONBLOCK">>, <<2, "F_SETFD", "FD_CLOEXEC">> >>

\* C10: on the fallback path the adjustments are issued in the order
\* non-blocking/0, close-on-exec/0, non-blocking/1, close-on-exec/1; when one
\* fails, pair_descriptors returns that call's error, has issued nothing after
\* it, and both descriptors of the pair are still open.
C10_FallbackOrderAndFailure ==
    (fallback /\ Len(issued) >= 2) =>
        LET n == Len(issued) - 1
        IN  /\ n <= 4
            /\ \A k \in 1..n :
                   /\ issued[k + 1].call = "fcntl"
                   /\ issued[k + 1].fd = fds[AdjustmentOrder[k][1]]
                   /\ issued[k + 1].cmd = AdjustmentOrder[k][2]
                   /\ issued[k + 1].arg = AdjustmentOrder[k][3]
                   /\ k < n => issued[k + 1].rc = 0
            /\ issued[n + 1].rc = -1 =>
                   /\ Returned
                   /\ pairRes = [tag |-> "Err", errno |-> issued[n + 1].errno]
                   /\ fds[1] # fds[2]
                   /\ fdTable[fds[1]].open /\ fdTable[fds[2]].open
            /\ (Returned /\ pairRes.tag = "Err") => issued[n + 1].rc = -1

C10_Witness ==
    /\ fallback /\ Returned
    /\ Len(issued) = 4
    /\ issued[4].rc = -1
    /\ pairRes.tag = "Err"
    /\ fdTable[fds[1]].nonblock /\ fdTable[fds[1]].cloexec
    /\ ~fdTable[fds[2]].nonblock

(***************************************************************************)
(* Properties of the socket lifecycle (SpecTcp)                            *)
(***************************************************************************)
\* C4: connect returns Ok and wraps the handle into a stream exactly when the
\* native call succeeds or reports would-block; otherwise it returns that
\* error, wraps nothing and closes nothing.
C4_ConnectOutcome ==
    lastCall.op = "connect" =>
        LET h == lastCall.h
            accepted == lastCall.rc # SOCKET_ERROR \/ lastCall.errno = "WSAEWOULDBLOCK"
        IN  /\ accepted <=> lastCall.ret = "Ok"
            /\ lastCall.ret = "Ok" => owners[h] = lastCall.ownersBefore + 1
            /\ lastCall.ret # "Ok" =>
                   /\ lastCall.ret = "Err"
                   /\ lastCall.retErr = lastCall.errno
                   /\ owners[h] = lastCall.ownersBefore
                   /\ closeCalls[h] = lastCall.closesBefore

C4_Witness ==
    /\ lastCall.op = "connect"
    /\ lastCall.rc = SOCKET_ERROR /\ lastCall.errno = "WSAEWOULDBLOCK"
    /\ lastCall.ret = "Ok"
    /\ owners[lastCall.h] = 1

\* C9: whatever calls are made on a handle, it is wrapped into an owning
\* object at most once, close is never applied to a handle an object owns,
\* and the handle is closed at most once in total (each owning object closes
\* it once when dropped).
C9_SingleOwnerSingleClose ==
    \A h \in Handles :
        /\ owners[h] <= 1
        /\ owners[h] + closeCalls[h] <= 1
        /\ (lastCall.op = "close" /\ lastCall.h = h) => lastCall.ownersBefore = 0

(***************************************************************************)
(* Properties of the socket options (SpecOpt)                              *)
(***************************************************************************)
\* d with its sub-millisecond part dropped.
WholeMillis(d) == Dur(d.secs, (d.nanos \div 1000000) * 1000000)

GotKeepalive == lastOpt.op = "get_keepalive" /\ lastOpt.rc = 0

\* C5 as stated: get_keepalive after set_keepalive(Some(d)) returns Some(d in
\* whole milliseconds) for every d, and None after set_keepalive(None).
C5_RoundTripEveryDuration ==
    GotKeepalive =>
        lastOpt.val = IF kaArg.some THEN Some(WholeMillis(kaArg.dur)) ELSE None

\* C5, amended: get_keepalive after set_keepalive(Some(d)) returns Some(d in
\* whole milliseconds) when d has between 1 and 2^31 - 1 whole milliseconds,
\* None when it has none, and Some(2^31 - 1 ms) when it has more; after
\* set_keepalive(None) it returns None.
C5_RoundTripInRange ==
    GotKeepalive =>
        IF ~kaArg.some THEN lastOpt.val = None
        ELSE LET ms == as_millis(kaArg.dur)
             IN  IF ms = Big(0, 0) THEN lastOpt.val = None
                 ELSE IF BigLeq(ms, I32Max)
                 THEN lastOpt.val = Some(WholeMillis(kaArg.dur))
                 ELSE lastOpt.val = Some(Dur(Big(32, 50331), 647000000))

C5_Witness ==
    /\ GotKeepalive
    /\ kaArg = Some(Dur(Big(0, 5), 647000000))
    /\ lastOpt.val = Some(Dur(Big(0, 5), 647000000))

\* C6: when getsockname succeeds, get_localaddr returns an error for a family
\* other than IPv4 and IPv6, an IPv4 address only for the IPv4 tag and an
\* IPv6 address only for the IPv6 tag.
C6_UnknownFamilyRejected ==
    (lastOpt.op = "get_localaddr" /\ lastOpt.rc = 0) =>
        /\ lastOpt.family \notin {AF_INET, AF_INET6} => lastOpt.ret = "Err"
        /\ (lastOpt.ret = "Ok" /\ lastOpt.addr = "V4") => lastOpt.family = AF_INET
        /\ (lastOpt.ret = "Ok" /\ lastOpt.addr = "V6") => lastOpt.family = AF_INET6

\* C7: set_keepalive(Some(d)) passes on/off = 1 and both time fields equal to
\* the whole milliseconds of d when they fit an unsigned 32-bit field, and to
\* 2^32 - 1 when they do not; set_keepalive(None) passes all three as 0.
C7_KeepaliveBlockU32 ==
    lastOpt.op = "set_keepalive" =>
        LET ms == as_millis(lastOpt.arg.dur)
            want == IF ~lastOpt.arg.some THEN Big(0, 0)
                    ELSE IF BigLeq(ms, U32Max) THEN ms ELSE U32Max
        IN  lastOpt.ka = [onoff |-> IF lastOpt.arg.some THEN 1 ELSE 0,
                          keepalivetime |-> want, keepaliveinterval |-> want]

\* C8 as stated: set_linger(Some(d)) passes on/off = 1 and a timeout equal to
\* the whole seconds of d; set_linger(None) passes 0 and 0.
C8_LingerWholeSeconds ==
    lastOpt.op = "set_linger" =>
        IF lastOpt.arg.some
        THEN lastOpt.lg.l_onoff = 1 /\ Big(0, lastOpt.lg.l_linger) = lastOpt.arg.dur.secs
        ELSE lastOpt.lg = [l_onoff |-> 0, l_linger |-> 0]

\* C8, amended: set_linger(Some(d)) passes on/off = 1 and a timeout equal to
\* the whole seconds of d modulo 2^16 (the whole seconds themselves below
\* 65536), which the OS then holds; set_linger(None) passes 0 and 0.
C8_LingerSecondsMod16 ==
    lastOpt.op = "set_linger" =>
        /\ IF lastOpt.arg.some
           THEN /\ lastOpt.lg.l_onoff = 1
                /\ lastOpt.lg.l_linger \in 0..65535
                /\ Big(lastOpt.arg.dur.secs.hi, lastOpt.lg.l_linger) = lastOpt.arg.dur.secs
           ELSE lastOpt.lg = [l_onoff |-> 0, l_linger |-> 0]
        /\ lastOpt.rc = 0 => osLinger = lastOpt.lg

C8_Witness ==
    /\ lastOpt.op = "set_linger"
    /\ lastOpt.rc = 0
    /\ lastOpt.arg = Some(Dur(Big(0, 5), 500000))
    /\ osLinger = [l_onoff |-> 1, l_linger |-> 5]

====
